---- MODULE Spec2Model ----
(***************************************************************************)
(* swg-python: SwgParser of swg_python/parser.py.                          *)
(*                                                                         *)
(* The parser walks the registered folders, cuts every file into the       *)
(* blocks between `@swg_begin` and `@swg_end`, decodes each block body     *)
(* with yaml.load and folds the decoded mapping into one dictionary        *)
(* (_swagger_dictionary), which compile() renders and writes.              *)
(*                                                                         *)
(* Python values are modelled as tagged records: None is Null, a string    *)
(* is Str(s), a dict is Map(f) with f a function from its keys to values.  *)
(* The top-level dictionary and a decoded block are bare functions.        *)
(***************************************************************************)
EXTENDS Integers, Sequences, FiniteSets, TLC

VARIABLES
    doc,            \* _swagger_dictionary
    folders,        \* _folders
    pos,            \* _last_swg_block_position
    ignoreErrors,   \* _ingore_errors
    dumpYaml,       \* swagger_dump_yaml
    dumpJson,       \* swagger_dump_json
    preview,        \* is_preview_enabled
    pc,             \* where the parser is: just constructed ("new"), with no
                    \* compile since construction or reset ("idle"), in
                    \* compile ("walk", "scan"), or back from compile
                    \* ("returned", "aborted")
    raised,         \* the exception the last operation ended with, or "none"
    fi,             \* compile: index of the folder being walked
    content,        \* compile_swagger_json: file_content
    outPath,        \* compile: output_path
    format,         \* compile: format
    sink,           \* the files written by the last call, in order
    outExists,      \* compile: os.path.exists(output_path)
    lastBlock,      \* history: the decoded block handed to the last merge
    prevDoc,        \* history: _swagger_dictionary before the last merge
    merges,         \* history: number of blocks merged by the merge steps
    mergedDoc,      \* history: _swagger_dictionary after the last block whose
                    \* three put_* calls all returned
    atCall,         \* history: dictionary and dumps when compile was called
    scanned,        \* history: the texts read by the last compile, in order
    opened,         \* history: number of files opened so far
    cli,            \* command_line_compile: its local variables, the point
                    \* it has reached and the compile calls it has made
    located,        \* history: the last search of get_swg_block for the
                    \* delimiters, when the searches are followed one by one
    cls             \* the class attributes SwgParser._swagger_dictionary and
                    \* SwgParser._folders, and whether the parser has its
                    \* own (instance) attributes of these names

mergeVars == <<doc, lastBlock, prevDoc, merges, raised>>

runVars == <<folders, pos, ignoreErrors, dumpYaml, dumpJson, preview, pc, fi,
             content, outPath, format, sink, outExists, mergedDoc, atCall,
             scanned, opened, cls, cli, located>>

vars == <<doc, folders, pos, ignoreErrors, dumpYaml, dumpJson, preview, pc,
          raised, fi, content, outPath, format, sink, outExists, lastBlock,
          prevDoc, merges, mergedDoc, atCall, scanned, opened, cls, cli, located>>

-----------------------------------------------------------------------------
(* Bounds *)

\* blocks merged in one behaviour of the merge specification
MaxMerges == 3

\* files opened in one behaviour of the parser specification
MaxFiles == 2

-----------------------------------------------------------------------------
(* Python values *)

Null == [k |-> "null"]

Str(s) == [k |-> "str", s |-> s]

Map(f) == [k |-> "map", m |-> f]

IsMap(v) == v.k = "map"

\* {}
EmptyDict == [x \in {} |-> Null]

\* {key: v}
One(key, v) == [x \in {key} |-> v]

\* dict.get(key): None when the key is missing
Get(d, key) == IF key \in DOMAIN d THEN d[key] ELSE Null

\* dict.update(other) on a copy: keys of other overwrite, the rest stays
Update(d, other) ==
    [x \in DOMAIN d \cup DOMAIN other |-> IF x \in DOMAIN other THEN other[x] ELSE d[x]]

\* dict.pop(key) on a copy, for a key that is present
Pop(d, key) == [x \in DOMAIN d \ {key} |-> d[x]]

-----------------------------------------------------------------------------
(* Block bodies and yaml.load                                              *)
(*                                                                         *)
(* A block body is a sequence of characters.  Each letter stands for one   *)
(* YAML line, " " is white space, "{" opens a flow mapping that is never   *)
(* closed, "w" is a bare word (a plain scalar, no `key: value`).           *)

LineChars == {"d", "e", "n", "g", "o", "x", "y", "i", "j", "z",
              "s", "t", "c", "P", "F"}

\* the `key: value` line a letter stands for
Line(c) ==
    CASE c = "d" -> [key |-> "definition",  val |-> Str("User")]
      [] c = "e" -> [key |-> "definition",  val |-> Str("Pet")]
      [] c = "n" -> [key |-> "definition",  val |-> Null]
      [] c = "g" -> [key |-> "method",      val |-> Str("get")]
      [] c = "o" -> [key |-> "method",      val |-> Str("post")]
      [] c = "x" -> [key |-> "path",        val |-> Str("/x")]
      [] c = "y" -> [key |-> "path",        val |-> Str("/y")]
      [] c = "i" -> [key |-> "info",        val |-> Str("v1")]
      [] c = "j" -> [key |-> "info",        val |-> Str("v2")]
      [] c = "z" -> [key |-> "info",        val |-> Null]
      [] c = "s" -> [key |-> "summary",     val |-> Str("A")]
      [] c = "t" -> [key |-> "summary",     val |-> Str("B")]
      [] c = "c" -> [key |-> "description", val |-> Str("B")]
      [] c = "P" -> [key |-> "paths",
                     val |-> Map(One("/y", Map(One("get", Map(One("summary", Str("A")))))))]
      [] c = "F" -> [key |-> "definitions",
                     val |-> Map(One("Pet", Map(One("summary", Str("A")))))]

\* results of yaml.load
LoadNone == [r |-> "none"]

LoadError == [r |-> "error"]

LoadScalar == [r |-> "scalar"]

LoadMap(f) == [r |-> "map", m |-> f]

\* no block merged yet
NoBlock == [r |-> "none"]

Range(s) == {s[i] : i \in 1..Len(s)}

\* yaml.load(body): white space only gives None, an unclosed flow mapping or
\* a bare word next to `key: value` lines is a parse error, a bare word
\* alone is a string, otherwise a dict in which a repeated key keeps its
\* last value
YamlLoad(body) ==
    LET sig  == SelectSeq(body, LAMBDA c : c # " ")
        last(key) == CHOOSE i \in 1..Len(sig) :
                        /\ Line(sig[i]).key = key
                        /\ \A j \in (i+1)..Len(sig) : Line(sig[j]).key # key
    IN  IF "{" \in Range(sig) THEN LoadError
        ELSE IF sig = <<>> THEN LoadNone
        ELSE IF sig = <<"w">> THEN LoadScalar
        ELSE IF "w" \in Range(sig) THEN LoadError
        ELSE LoadMap([key \in {Line(sig[i]).key : i \in 1..Len(sig)} |->
                         Line(sig[last(key)]).val])

-----------------------------------------------------------------------------
(* Block classification *)

IsSwgDefinition(block) == Get(block, "definition") # Null

IsSwgPath(block) == Get(block, "method") # Null

IsSwgInfo(block) == Get(block, "info") # Null

-----------------------------------------------------------------------------
(* Merge engine *)

\* the block object after put_definitions: `definition` popped
PopDefinition(block) ==
    IF IsSwgDefinition(block) THEN Pop(block, "definition") ELSE block

\* put_definitions with the `definitions` entry assigned anew on every call
PutDefinitionsAnew(d, block) ==
    IF ~IsSwgDefinition(block) THEN d
    ELSE Update(d, One("definitions",
             Map(One(block["definition"].s, Map(Pop(block, "definition"))))))

PutDefinitions(d, block) ==
    IF ~IsSwgDefinition(block) THEN d
    ELSE LET definition_name == block["definition"].s
             body == Map(Pop(block, "definition"))
         IN  IF Get(d, "definitions") # Null
                   /\ Get(d["definitions"].m, definition_name) = Null
             THEN [d EXCEPT !["definitions"] =
                      Map(Update(@.m, One(definition_name, body)))]
             ELSE IF Get(d, "definitions") # Null
             THEN [d EXCEPT !["definitions"] =
                      Map(Update(@.m, One(definition_name, body)))]
             ELSE Update(d, One("definitions", Map(One(definition_name, body))))

\* put_swg_info that takes the block for the dictionary once the dictionary
\* has an `info` key
PutSwgInfoRebind(d, block) ==
    IF ~IsSwgInfo(block) THEN d
    ELSE IF "info" \in DOMAIN d THEN block
    ELSE Update(d, block)

\* put_swg_info that does not look for the `info` key
PutSwgInfoAlways(d, block) == Update(d, block)

\* put_swg_info that keeps the value of a key the dictionary already has
PutSwgInfoKeepFirst(d, block) ==
    IF IsSwgInfo(block) THEN Update(block, d) ELSE d

PutSwgInfo(d, block) ==
    IF IsSwgInfo(block) THEN Update(d, block) ELSE d

\* block.pop('path') raises KeyError when the block has no `path` key
PathRaises(block) == IsSwgPath(block) /\ "path" \notin DOMAIN block

\* the block object after put_swg_path: `path` and `method` popped
PopPath(block) ==
    IF IsSwgPath(block) THEN Pop(Pop(block, "path"), "method") ELSE block

\* put_swg_path that updates the operation stored under a known method
\* instead of replacing it, paths[path][method].update(operation)
PutSwgPathDeep(d, block) ==
    IF ~IsSwgPath(block) THEN d
    ELSE LET method_name == block["method"].s
             path_name   == block["path"].s
             op          == Pop(Pop(block, "path"), "method")
             old         == IF Get(d, "paths") # Null
                                  /\ Get(d["paths"].m, path_name) # Null
                                  /\ Get(d["paths"].m[path_name].m, method_name) # Null
                            THEN d["paths"].m[path_name].m[method_name].m
                            ELSE EmptyDict
             merged      == Map(Update(old, op))
         IN  IF Get(d, "paths") # Null /\ Get(d["paths"].m, path_name) # Null
             THEN [d EXCEPT !["paths"] =
                      Map([@.m EXCEPT ![path_name] =
                              Map(Update(@.m, One(method_name, merged)))])]
             ELSE IF Get(d, "paths") # Null
             THEN [d EXCEPT !["paths"] =
                      Map(Update(@.m, One(path_name, Map(One(method_name, merged)))))]
             ELSE Update(d, One("paths",
                      Map(One(path_name, Map(One(method_name, merged))))))

\* put_swg_path as in swg-python.py: a known path has its whole entry
\* assigned, paths[path] = {method: operation}
PutSwgPathAssign(d, block) ==
    IF ~IsSwgPath(block) THEN d
    ELSE LET method_name == block["method"].s
             path_name   == block["path"].s
             op          == Map(Pop(Pop(block, "path"), "method"))
         IN  IF Get(d, "paths") # Null /\ Get(d["paths"].m, path_name) # Null
             THEN [d EXCEPT !["paths"] =
                      Map([@.m EXCEPT ![path_name] = Map(One(method_name, op))])]
             ELSE IF Get(d, "paths") # Null
             THEN [d EXCEPT !["paths"] =
                      Map(Update(@.m, One(path_name, Map(One(method_name, op)))))]
             ELSE Update(d, One("paths",
                      Map(One(path_name, Map(One(method_name, op))))))

PutSwgPath(d, block) ==
    IF ~IsSwgPath(block) THEN d
    ELSE LET method_name == block["method"].s
             path_name   == block["path"].s
             op          == Map(Pop(Pop(block, "path"), "method"))
         IN  IF Get(d, "paths") # Null /\ Get(d["paths"].m, path_name) # Null
             THEN [d EXCEPT !["paths"] =
                      Map([@.m EXCEPT ![path_name] =
                              Map(Update(@.m, One(method_name, op)))])]
             ELSE IF Get(d, "paths") # Null
             THEN [d EXCEPT !["paths"] =
                      Map(Update(@.m, One(path_name, Map(One(method_name, op)))))]
             ELSE Update(d, One("paths",
                      Map(One(path_name, Map(One(method_name, op))))))

\* put_swg_path pops `path` and `method` from the very dict object that
\* put_definitions stored under definitions[name]; the pops show there as
\* long as put_swg_info has not replaced the `definitions` entry
Aliased(d, block) ==
    IF /\ IsSwgDefinition(block)
       /\ IsSwgPath(block)
       /\ ~(IsSwgInfo(block) /\ "definitions" \in DOMAIN block)
    THEN [d EXCEPT !["definitions"] =
             Map([@.m EXCEPT ![block["definition"].s] =
                     Map(PopPath(PopDefinition(block)))])]
    ELSE d

\* the loop body with the three put_* calls undone when one of them raises
MergeBlockUndo(d, loaded) ==
    IF loaded.r = "scalar" THEN [doc |-> d, exc |-> "AttributeError"]
    ELSE LET block == loaded.m
             d1 == PutDefinitions(d, block)
             b1 == PopDefinition(block)
             d2 == PutSwgInfo(d1, b1)
         IN  IF PathRaises(b1) THEN [doc |-> d, exc |-> "KeyError"]
             ELSE [doc |-> Aliased(PutSwgPath(d2, b1), block), exc |-> "none"]

\* the body of the scan loop for one decoded block: the three put_* calls.
\* A decoded scalar has no .get; a Path block without `path` fails in pop,
\* after put_definitions and put_swg_info have run.
MergeBlock(d, loaded) ==
    IF loaded.r = "scalar" THEN [doc |-> d, exc |-> "AttributeError"]
    ELSE LET block == loaded.m
             d1 == PutDefinitions(d, block)
             b1 == PopDefinition(block)
             d2 == PutSwgInfo(d1, b1)
         IN  IF PathRaises(b1) THEN [doc |-> d2, exc |-> "KeyError"]
             ELSE [doc |-> Aliased(PutSwgPath(d2, b1), block), exc |-> "none"]

-----------------------------------------------------------------------------
(* File text and the block locator *)

SWG_BEGIN == <<"@", "s", "w", "g", "_", "b", "e", "g", "i", "n">>

SWG_END == <<"@", "s", "w", "g", "_", "e", "n", "d">>

Min(S) == CHOOSE x \in S : \A y \in S : x <= y

\* str.find(sub): the lowest index (from 0) where sub occurs, -1 when absent
Find(text, sub) ==
    LET hits == {i \in 0..(Len(text) - Len(sub)) :
                    SubSeq(text, i + 1, i + Len(sub)) = sub}
    IN  IF hits = {} THEN -1 ELSE Min(hits)

\* text[from:to], for 0 <= from and 0 <= to <= len(text)
Slice(text, from, to) == SubSeq(text, from + 1, to)

HasNext(p) == p > -1

\* the search that leaves the cursor where the addition put it when a
\* delimiter is missing
LocateNoSentinel(text, p) ==
    LET local_content == Slice(text, p, Len(text))
        start == Find(local_content, SWG_BEGIN)
        end   == Find(local_content, SWG_END)
        next  == p + end + Len(SWG_END)
    IN  IF next >= Len(text) \/ start = -1 \/ end = -1
        THEN [pos |-> next, found |-> FALSE, body |-> <<>>]
        ELSE [pos |-> next, found |-> TRUE,
              body |-> Slice(local_content, start + Len(SWG_BEGIN), end)]

\* the search that leaves the cursor where it was when it finds a block
LocateStay(text, p) ==
    LET local_content == Slice(text, p, Len(text))
        start == Find(local_content, SWG_BEGIN)
        end   == Find(local_content, SWG_END)
        next  == p + end + Len(SWG_END)
    IN  IF next >= Len(text) \/ start = -1 \/ end = -1
        THEN [pos |-> -1, found |-> FALSE, body |-> <<>>]
        ELSE [pos |-> p, found |-> TRUE,
              body |-> Slice(local_content, start + Len(SWG_BEGIN), end)]

\* the search of get_swg_block from position p: the position it leaves,
\* whether a block was found and the text between the delimiters
Locate(text, p) ==
    LET local_content == Slice(text, p, Len(text))
        start == Find(local_content, SWG_BEGIN)
        end   == Find(local_content, SWG_END)
        next  == p + end + Len(SWG_END)
    IN  IF next >= Len(text) \/ start = -1 \/ end = -1
        THEN [pos |-> -1, found |-> FALSE, body |-> <<>>]
        ELSE [pos |-> next, found |-> TRUE,
              body |-> Slice(local_content, start + Len(SWG_BEGIN), end)]

\* yaml.load that swallows the exception whatever _ingore_errors is
DecodeSwallow(body, ignore) ==
    LET loaded == YamlLoad(body)
    IN  IF loaded.r = "error"
        THEN [block |-> LoadNone, exc |-> "none"]
        ELSE [block |-> loaded, exc |-> "none"]

\* yaml.load under _ingore_errors: the exception is swallowed and block_dict
\* stays None; without it the exception leaves get_swg_block
Decode(body, ignore) ==
    LET loaded == YamlLoad(body)
    IN  IF loaded.r = "error"
        THEN IF ignore THEN [block |-> LoadNone, exc |-> "none"]
                       ELSE [block |-> LoadNone, exc |-> "YAMLError"]
        ELSE [block |-> loaded, exc |-> "none"]

\* no search followed yet
NoLocate == [from |-> 0, found |-> FALSE, body |-> <<>>, calls |-> 0]

\* get_swg_block(content) with _last_swg_block_position = p: the position it
\* leaves, the decoded block (LoadNone for None) and the exception raised
GetSwgBlock(text, p, ignore) ==
    IF ~(p > -1) THEN [pos |-> p, block |-> LoadNone, exc |-> "none"]
    ELSE LET loc == Locate(text, p)
         IN  IF ~loc.found
             THEN [pos |-> loc.pos, block |-> LoadNone, exc |-> "none"]
             ELSE LET dec == Decode(loc.body, ignore)
                  IN  [pos |-> loc.pos, block |-> dec.block, exc |-> dec.exc]

-----------------------------------------------------------------------------
(* Rendering and writing *)

\* a rendered text: "" or a dump of a dictionary in an encoding
EmptyString == [enc |-> "", tree |-> EmptyDict]

\* yaml.dump(d)
YamlDump(d) == [enc |-> "yaml", tree |-> d]

\* json.dumps(d, ensure_ascii=False)
JsonDumps(d) == [enc |-> "json", tree |-> d]

\* "var SwaggerSpec = %s;" % (dump)
JsContent(dump) == [enc |-> "js", tree |-> dump]

\* generate_spec(): the dumps are renewed only for a non-empty dictionary
GenerateSpec(d, yaml, json) ==
    IF Cardinality(DOMAIN d) > 0
    THEN [yaml |-> YamlDump(d), json |-> JsonDumps(d)]
    ELSE [yaml |-> yaml, json |-> json]

OutputFile == "swagger.out"

\* the write_file calls of compile, in order, after generate_spec
Writes(path, fmt, exists, prev, yaml, json) ==
    LET out == IF Len(path) > 0 /\ exists
               THEN <<[path |-> path,
                       content |-> IF fmt = "yaml" THEN yaml ELSE json]>>
               ELSE <<>>
        pre == IF prev = TRUE
               THEN <<[path |-> "static/swg_python/specification.js",
                       content |-> JsContent(json)],
                      [path |-> "static/swg_python/specification.json",
                       content |-> json]>>
               ELSE <<>>
    IN  out \o pre

-----------------------------------------------------------------------------
(* The parser *)

FolderNames == {"./api", "./project"}

\* a block in a file
Block(body) == SWG_BEGIN \o body \o SWG_END

\* text of a source file outside the blocks
Code == <<"#">>

\* the texts of the .py files the walk of a folder may come upon
Files == {
    <<>>,
    Code,
    Block(<<"i">>),
    Block(<<"x", "g", "s">>),
    Block(<<"{">>) \o Block(<<"i">>) \o Code,
    Block(<<"i">>) \o Block(<<"{">>) \o Code,
    Code \o Block(<<" ", "d", "s", " ">>) \o Code \o Block(<<"x", "o", "c">>) \o Code,
    Block(<<" ">>) \o Block(<<"j">>) \o Code,
    Block(<<"e">>) \o Block(<<"i", "g">>) \o Block(<<"j">>) \o Code,
    Block(<<"w">>) \o Code }

\* command_line_compile(args) at its first statement after `args` is set
CliStart(args) ==
    [args |-> args, i |-> 0, folders |-> <<>>, output |-> "",
     output_type |-> "json", is_f_param |-> FALSE, is_o_param |-> FALSE,
     is_t_param |-> FALSE, usage |-> FALSE, pc |-> "args", calls |-> <<>>]

\* between two calls; "parsed" and "written" are reached in src/swg_python.py
\* only (a compile_swagger_json call of the caller's and write_to_file)
Ready == pc \in {"new", "idle", "returned", "aborted", "parsed", "written"}

NoCall == [doc |-> EmptyDict, yaml |-> EmptyString, json |-> EmptyString]

\* the class attributes `_swagger_dictionary = {}` and `_folders = []`.  A
\* parser has no attributes of these names of its own until reset() assigns
\* them: until then self._swagger_dictionary and self._folders are the dict
\* and the list of the class, which put_* and add_folder change in place.
\* While the parser has none of its own (own = FALSE), doc and folders are
\* the class's dict and list and the doc and folders fields are not used.
ClassShared == [own |-> FALSE, doc |-> EmptyDict, folders |-> <<>>]

\* what SwgParser._swagger_dictionary and SwgParser._folders hold
ClassDoc == IF cls.own THEN cls.doc ELSE doc

ClassFolders == IF cls.own THEN cls.folders ELSE folders

\* the parser after SwgParser(enable_preview), the first of its process
ParserInit ==
    /\ doc = EmptyDict
    /\ folders = <<>>
    /\ pos = 0
    /\ ignoreErrors = FALSE
    /\ dumpYaml = EmptyString
    /\ dumpJson = EmptyString
    /\ preview \in BOOLEAN
    /\ pc = "new"
    /\ raised = "none"
    /\ fi = 0
    /\ content = <<>>
    /\ outPath = ""
    /\ format = "yaml"
    /\ sink = <<>>
    /\ outExists = FALSE
    /\ lastBlock = NoBlock
    /\ prevDoc = EmptyDict
    /\ merges = 0
    /\ mergedDoc = EmptyDict
    /\ atCall = NoCall
    /\ scanned = <<>>
    /\ opened = 0
    /\ cls = ClassShared
    /\ located = NoLocate

Init ==
    /\ ParserInit
    /\ cli = CliStart(<<>>)

\* reset that leaves the rendered dumps as they are
ResetKeepsDumps ==
    /\ Ready
    /\ pos' = 0
    /\ doc' = EmptyDict
    /\ folders' = <<>>
    /\ pc' = "idle"
    /\ raised' = "none"
    /\ fi' = 0
    /\ outPath' = ""
    /\ format' = "yaml"
    /\ sink' = <<>>
    /\ outExists' = FALSE
    /\ lastBlock' = NoBlock
    /\ prevDoc' = EmptyDict
    /\ mergedDoc' = EmptyDict
    /\ atCall' = NoCall
    /\ scanned' = <<>>
    /\ UNCHANGED <<dumpYaml, dumpJson, ignoreErrors, preview, content, merges,
                   opened, cli, located>>

\* reset(): the attributes it assigns
ResetAttributes ==
    /\ Ready
    /\ pos' = 0
    /\ doc' = EmptyDict
    /\ folders' = <<>>
    /\ dumpYaml' = EmptyString
    /\ dumpJson' = EmptyString
    /\ pc' = "idle"
    /\ raised' = "none"
    /\ fi' = 0
    /\ outPath' = ""
    /\ format' = "yaml"
    /\ sink' = <<>>
    /\ outExists' = FALSE
    /\ lastBlock' = NoBlock
    /\ prevDoc' = EmptyDict
    /\ mergedDoc' = EmptyDict
    /\ atCall' = NoCall
    /\ scanned' = <<>>
    /\ UNCHANGED <<ignoreErrors, preview, content, merges, opened, cli, located>>

\* reset() in a process with this one parser, where nothing reads the
\* class's own dict and list once the parser has its own
Reset ==
    /\ ResetAttributes
    /\ UNCHANGED cls

\* reset() in a process with several parsers: the assignments give the
\* parser a dict and a list of its own and leave the class's as they are
ProcessReset ==
    /\ ResetAttributes
    /\ cls' = IF cls.own THEN cls
              ELSE [own |-> TRUE, doc |-> doc, folders |-> folders]

\* SwgParser(enable_preview): a further parser is constructed in the same
\* process and is the one the calls go to from here on.  __init__ assigns
\* is_preview_enabled only; every other attribute is the class's.
Construct ==
    /\ Ready
    /\ doc' = ClassDoc
    /\ folders' = ClassFolders
    /\ cls' = ClassShared
    /\ pos' = 0
    /\ ignoreErrors' = FALSE
    /\ dumpYaml' = EmptyString
    /\ dumpJson' = EmptyString
    /\ preview' \in BOOLEAN
    /\ pc' = "new"
    /\ raised' = "none"
    /\ fi' = 0
    /\ outPath' = ""
    /\ format' = "yaml"
    /\ sink' = <<>>
    /\ outExists' = FALSE
    /\ lastBlock' = NoBlock
    /\ prevDoc' = ClassDoc
    /\ mergedDoc' = ClassDoc
    /\ atCall' = NoCall
    /\ scanned' = <<>>
    /\ UNCHANGED <<content, merges, opened, cli, located>>

\* add_folder that appends without looking
AddFolderAlways ==
    /\ Ready
    /\ \E folder_path \in FolderNames : folders' = Append(folders, folder_path)
    /\ pc' = IF pc = "new" THEN "idle" ELSE pc
    /\ UNCHANGED <<doc, pos, ignoreErrors, dumpYaml, dumpJson, preview,
                   raised, fi, content, outPath, format, sink, outExists,
                   lastBlock, prevDoc, merges, mergedDoc, atCall, scanned, opened,
                   cls, cli, located>>

\* add_folder(folder_path)
AddFolder ==
    /\ Ready
    /\ \E folder_path \in FolderNames :
          folders' = IF Cardinality({i \in 1..Len(folders) : folders[i] = folder_path}) = 0
                     THEN Append(folders, folder_path)
                     ELSE folders
    /\ pc' = IF pc = "new" THEN "idle" ELSE pc
    /\ UNCHANGED <<doc, pos, ignoreErrors, dumpYaml, dumpJson, preview,
                   raised, fi, content, outPath, format, sink, outExists,
                   lastBlock, prevDoc, merges, mergedDoc, atCall, scanned, opened,
                   cls, cli, located>>

\* compile that starts from an empty dictionary
CompileFresh ==
    /\ Ready
    /\ \E ignore_errors \in BOOLEAN : ignoreErrors' = ignore_errors
    /\ pc' = "walk"
    /\ fi' = 1
    /\ raised' = "none"
    /\ outPath' = ""
    /\ format' = "yaml"
    /\ sink' = <<>>
    /\ outExists' = FALSE
    /\ scanned' = <<>>
    /\ lastBlock' = NoBlock
    /\ doc' = EmptyDict
    /\ prevDoc' = EmptyDict
    /\ mergedDoc' = EmptyDict
    /\ atCall' = [doc |-> doc, yaml |-> dumpYaml, json |-> dumpJson]
    /\ UNCHANGED <<folders, pos, dumpYaml, dumpJson, preview, content,
                   merges, opened, cls, cli, located>>

\* compile(output_path, format, ignore_errors): the call, up to the folder
\* loop.  output_path and format are first read after the loop (Finish),
\* which is where their values are drawn.
Compile ==
    /\ Ready
    /\ \E ignore_errors \in BOOLEAN : ignoreErrors' = ignore_errors
    /\ pc' = "walk"
    /\ fi' = 1
    /\ raised' = "none"
    /\ outPath' = ""
    /\ format' = "yaml"
    /\ sink' = <<>>
    /\ outExists' = FALSE
    /\ scanned' = <<>>
    /\ lastBlock' = NoBlock
    /\ prevDoc' = doc
    /\ mergedDoc' = doc
    /\ atCall' = [doc |-> doc, yaml |-> dumpYaml, json |-> dumpJson]
    /\ UNCHANGED <<doc, folders, pos, dumpYaml, dumpJson, preview, content,
                   merges, opened, cls, cli, located>>

\* compile_folder: os.walk comes upon the next .py file of the folder and
\* compile_swagger_json opens it; the file is read, or open/read raises
NextFile ==
    /\ pc = "walk"
    /\ fi <= Len(folders)
    /\ opened < MaxFiles
    /\ opened' = opened + 1
    /\ pos' = 0
    /\ \E readable \in BOOLEAN :
          IF readable
          THEN /\ \E text \in Files :
                    /\ content' = text
                    /\ scanned' = Append(scanned, text)
               /\ pc' = "scan"
               /\ raised' = "none"
          ELSE /\ pc' = "aborted"
               /\ raised' = "ReadError"
               /\ UNCHANGED <<content, scanned>>
    /\ UNCHANGED <<doc, folders, ignoreErrors, dumpYaml, dumpJson, preview, fi,
                   outPath, format, sink, outExists, lastBlock, prevDoc, merges,
                   mergedDoc, atCall, cls, cli, located>>

\* compile_swagger_json: one pass of the while loop
ScanBlock ==
    /\ pc = "scan"
    /\ IF ~HasNext(pos)
       THEN /\ pc' = "walk"
            /\ content' = <<>>
            /\ UNCHANGED <<doc, pos, raised, lastBlock, prevDoc, mergedDoc>>
       ELSE LET got == GetSwgBlock(content, pos, ignoreErrors)
                res == MergeBlock(doc, got.block)
            IN  /\ pos' = got.pos
                /\ IF got.exc # "none"
                   THEN /\ pc' = "aborted"
                        /\ raised' = got.exc
                        /\ content' = <<>>
                        /\ UNCHANGED <<doc, lastBlock, prevDoc, mergedDoc>>
                   ELSE IF got.block = LoadNone
                   THEN /\ pc' = "walk"
                        /\ content' = <<>>
                        /\ UNCHANGED <<doc, raised, lastBlock, prevDoc, mergedDoc>>
                   ELSE /\ doc' = res.doc
                        /\ lastBlock' = got.block
                        /\ prevDoc' = doc
                        /\ raised' = res.exc
                        /\ IF res.exc # "none"
                           THEN /\ pc' = "aborted"
                                /\ content' = <<>>
                                /\ UNCHANGED mergedDoc
                           ELSE /\ pc' = "scan"
                                /\ mergedDoc' = res.doc
                                /\ UNCHANGED content
    /\ UNCHANGED <<folders, ignoreErrors, dumpYaml, dumpJson, preview, fi,
                   outPath, format, sink, outExists, merges, atCall, scanned,
                   opened, cls, cli, located>>

\* compile_folder: the walk of the folder is over
EndFolder ==
    /\ pc = "walk"
    /\ fi <= Len(folders)
    /\ fi' = fi + 1
    /\ UNCHANGED <<doc, folders, pos, ignoreErrors, dumpYaml, dumpJson, preview,
                   pc, raised, content, outPath, format, sink, outExists,
                   lastBlock, prevDoc, merges, mergedDoc, atCall, scanned, opened,
                   cls, cli, located>>

\* compile: after the folder loop, generate_spec and the write_file calls,
\* with the output_path and format of the call and the file system's answer
\* to os.path.exists(output_path); write_file is taken to succeed
Finish ==
    /\ pc = "walk"
    /\ fi > Len(folders)
    /\ \E output_path \in {"", OutputFile}, fmt \in {"yaml", "json"},
          exists \in BOOLEAN :
          LET dumps == GenerateSpec(doc, dumpYaml, dumpJson)
          IN  /\ (output_path = "" => fmt = "yaml" /\ ~exists)
              /\ outPath' = output_path
              /\ format' = fmt
              /\ outExists' = exists
              /\ dumpYaml' = dumps.yaml
              /\ dumpJson' = dumps.json
              /\ sink' = Writes(output_path, fmt, exists, preview,
                                dumps.yaml, dumps.json)
    /\ pc' = "returned"
    /\ UNCHANGED <<doc, folders, pos, ignoreErrors, preview, raised, fi,
                   content, lastBlock, prevDoc, merges, mergedDoc, atCall,
                   scanned, opened, cls, cli, located>>

Next ==
    \/ Reset
    \/ AddFolder
    \/ Compile
    \/ NextFile
    \/ ScanBlock
    \/ EndFolder
    \/ Finish

Spec == Init /\ [][Next]_vars

\* several parsers constructed one after the other in one process
ProcessNext ==
    \/ Construct
    \/ ProcessReset
    \/ AddFolder
    \/ Compile
    \/ NextFile
    \/ ScanBlock
    \/ EndFolder
    \/ Finish

SpecProcess == Init /\ [][ProcessNext]_vars

-----------------------------------------------------------------------------
(* The merge engine on its own: blocks are decoded and merged one after    *)
(* the other into the dictionary, as the scan loop does across the files   *)
(* of one or several compile() calls; reset() empties the dictionary.      *)

\* the block bodies merged.  No body is at once an Info block with a `paths`
\* key and a Definition or Path block: there the dict stored under
\* definitions[name] or paths[path][method] would hold the top-level `paths`
\* dict itself, which the value model (no object identity) does not render.
Bodies == {
    <<"x","g","s">>, <<"x","g","c">>, <<"x","g","t","c">>,
    <<"x","o","s">>, <<"y","g","s">>, <<"y","o","c">>,
    <<"d","s">>, <<"d","c">>, <<"e","s">>, <<"e","t","c">>,
    <<"i">>, <<"j">>, <<"i","s">>, <<"j","c">>,
    <<"i","P">>, <<"i","F">>,
    <<"d","x","g","s">>, <<"d","i","c">>, <<"d","i","F">>,
    <<"s">>, <<"n","z","c">>,
    <<"g","s">>, <<"i","x","o">>, <<"d","g">>, <<"w">> }

MergeInit ==
    /\ Init
    /\ preview = FALSE

\* one pass of the loop body of compile_swagger_json on a decoded block
MergeStep ==
    /\ merges < MaxMerges
    /\ \E body \in Bodies :
          LET loaded == YamlLoad(body)
              res    == MergeBlock(doc, loaded)
          IN  /\ loaded.r \in {"map", "scalar"}
              /\ doc' = res.doc
              /\ raised' = res.exc
              /\ lastBlock' = loaded
              /\ prevDoc' = doc
              /\ merges' = merges + 1
    /\ UNCHANGED runVars

\* reset()
MergeReset ==
    /\ doc' = EmptyDict
    /\ lastBlock' = NoBlock
    /\ prevDoc' = doc
    /\ raised' = "none"
    /\ UNCHANGED merges
    /\ UNCHANGED runVars

MergeNext == MergeStep \/ MergeReset

SpecMerge == MergeInit /\ [][MergeNext]_vars

-----------------------------------------------------------------------------
(* Reading the dictionary *)

\* the names under `definitions`
DefNames(d) ==
    IF Get(d, "definitions") # Null THEN DOMAIN d["definitions"].m ELSE {}

\* the path strings under `paths`
PathNames(d) ==
    IF Get(d, "paths") # Null THEN DOMAIN d["paths"].m ELSE {}

\* the (path, method) pairs under `paths`
Pairs(d) ==
    {pm \in UNION {{<<p, m>> : m \in DOMAIN d["paths"].m[p].m} : p \in PathNames(d)} : TRUE}

DefBody(d, name) == d["definitions"].m[name]

OpBody(d, p, m) == d["paths"].m[p].m[m]

\* a block minus the given keys
Without(block, keys) == [x \in DOMAIN block \ keys |-> block[x]]

\* the last step merged a decoded mapping (the put_* calls ran on it)
MergedMap == lastBlock.r = "map"

\* kinds of the block of the last step
LastIsDefinition ==
    /\ MergedMap
    /\ IsSwgDefinition(lastBlock.m)
    /\ ~IsSwgPath(lastBlock.m)
    /\ ~IsSwgInfo(lastBlock.m)

LastIsInfo ==
    /\ MergedMap
    /\ IsSwgInfo(lastBlock.m)
    /\ ~IsSwgDefinition(lastBlock.m)
    /\ ~IsSwgPath(lastBlock.m)

LastIsPath ==
    /\ MergedMap
    /\ IsSwgPath(lastBlock.m)
    /\ ~IsSwgDefinition(lastBlock.m)
    /\ "path" \in DOMAIN lastBlock.m

LastPath == lastBlock.m["path"].s

LastMethod == lastBlock.m["method"].s

LastOperation == Without(lastBlock.m, {"path", "method"})

\* the (path, method) of the last block was already in the dictionary
Remerged == LastIsPath /\ <<LastPath, LastMethod>> \in Pairs(prevDoc)

-----------------------------------------------------------------------------
(* C1 *)

\* C1 (as stated): merging a second Path block with the same path and the
\* same method leaves paths[path][method] equal to the shallow union of the
\* two operation bodies.
C1_ShallowUnion ==
    Remerged =>
        OpBody(doc, LastPath, LastMethod) =
            Map(Update(OpBody(prevDoc, LastPath, LastMethod).m, LastOperation))

\* C1 (amended): merging a second Path block with the same path and the same
\* method leaves paths[path][method] equal to the operation body of the
\* second block alone; the other methods of that path keep their bodies.
C1_SecondReplaces ==
    Remerged =>
        /\ OpBody(doc, LastPath, LastMethod) = Map(LastOperation)
        /\ \A pm \in Pairs(prevDoc) :
              (pm[1] = LastPath /\ pm[2] # LastMethod) =>
                  /\ pm \in Pairs(doc)
                  /\ OpBody(doc, pm[1], pm[2]) = OpBody(prevDoc, pm[1], pm[2])

\* a re-merge whose first body has a key the second lacks, next to another
\* method of the same path
C1_Witness ==
    /\ Remerged
    /\ DOMAIN OpBody(prevDoc, LastPath, LastMethod).m \ DOMAIN LastOperation # {}
    /\ \E pm \in Pairs(prevDoc) : pm[1] = LastPath /\ pm[2] # LastMethod

-----------------------------------------------------------------------------
(* C2 *)

\* the decoded Path blocks that have a `path`
PathBlocks ==
    {YamlLoad(b) : b \in {c \in Bodies :
        /\ YamlLoad(c).r = "map"
        /\ IsSwgPath(YamlLoad(c).m)
        /\ ~IsSwgDefinition(YamlLoad(c).m)
        /\ "path" \in DOMAIN YamlLoad(c).m}}

\* C2: from every dictionary, two Path blocks with the same path and
\* different methods give the same paths[path] in either order, holding both
\* methods, each with its own body minus `path` and `method`.
C2_MethodsCommute ==
    \A b1, b2 \in PathBlocks :
        (b1.m["path"] = b2.m["path"] /\ b1.m["method"] # b2.m["method"]) =>
            LET p   == b1.m["path"].s
                r12 == MergeBlock(MergeBlock(doc, b1).doc, b2).doc
                r21 == MergeBlock(MergeBlock(doc, b2).doc, b1).doc
            IN  /\ r12["paths"].m[p] = r21["paths"].m[p]
                /\ OpBody(r12, p, b1.m["method"].s) =
                       Map(Without(b1.m, {"path", "method"}))
                /\ OpBody(r12, p, b2.m["method"].s) =
                       Map(Without(b2.m, {"path", "method"}))

\* two Path blocks of one path and two methods were merged one after the
\* other, next to another path
C2_Witness ==
    /\ LastIsPath
    /\ <<LastPath, LastMethod>> \notin Pairs(prevDoc)
    /\ \E pm \in Pairs(prevDoc) : pm[1] = LastPath /\ pm[2] # LastMethod
    /\ \E pm \in Pairs(prevDoc) : pm[1] # LastPath
    /\ Cardinality({pm \in Pairs(doc) : pm[1] = LastPath}) >= 2

-----------------------------------------------------------------------------
(* C3 *)

\* C3 (as stated): a merge step of any kind keeps every definition name and
\* every (path, method) pair that was in the dictionary before it.
C3_NothingRemoved ==
    MergedMap =>
        /\ DefNames(prevDoc) \subseteq DefNames(doc)
        /\ Pairs(prevDoc) \subseteq Pairs(doc)

\* put_swg_info replaces the top-level entry of every key of the block
InfoReplaces(key) ==
    /\ IsSwgInfo(lastBlock.m)
    /\ key \in DOMAIN lastBlock.m

\* C3 (amended): a merge step keeps every definition name and every
\* (path, method) pair that was in the dictionary, except that a block with
\* a non-null `info` key that itself has a `definitions` (or `paths`) key
\* replaces the whole `definitions` (or `paths`) entry.
C3_SiblingsKept ==
    MergedMap =>
        /\ ~InfoReplaces("definitions") => DefNames(prevDoc) \subseteq DefNames(doc)
        /\ ~InfoReplaces("paths") => Pairs(prevDoc) \subseteq Pairs(doc)

\* a block was merged into a dictionary that held two definitions and two
\* (path, method) pairs
C3_Witness ==
    /\ MergedMap
    /\ ~InfoReplaces("definitions")
    /\ ~InfoReplaces("paths")
    /\ Cardinality(DefNames(prevDoc)) + Cardinality(Pairs(prevDoc)) >= 2
    /\ doc # prevDoc

-----------------------------------------------------------------------------
(* C4 *)

LastName == lastBlock.m["definition"].s

\* C4: after a Definition block is merged, definitions[name] is the body of
\* that block without the `definition` key, the other definitions and the
\* other top-level keys are as before, and `definitions` exists.
C4_LastDefinitionWins ==
    LastIsDefinition =>
        /\ LastName \in DefNames(doc)
        /\ DefBody(doc, LastName) = Map(Without(lastBlock.m, {"definition"}))
        /\ DefNames(doc) = DefNames(prevDoc) \cup {LastName}
        /\ \A name \in DefNames(prevDoc) \ {LastName} :
              DefBody(doc, name) = DefBody(prevDoc, name)
        /\ \A key \in DOMAIN prevDoc \ {"definitions"} :
              key \in DOMAIN doc /\ doc[key] = prevDoc[key]

\* a definition name was merged again with another body, next to another
\* definition
C4_Witness ==
    /\ LastIsDefinition
    /\ LastName \in DefNames(prevDoc)
    /\ DefBody(prevDoc, LastName) # DefBody(doc, LastName)
    /\ DefNames(prevDoc) \ {LastName} # {}

-----------------------------------------------------------------------------
(* C5 *)

\* C5: after an Info block is merged, every key of the block holds the
\* block's value at the top level, and every other top-level key is still
\* there with its value.
C5_InfoLastWriterWins ==
    LastIsInfo =>
        /\ DOMAIN doc = DOMAIN prevDoc \cup DOMAIN lastBlock.m
        /\ \A key \in DOMAIN lastBlock.m : doc[key] = lastBlock.m[key]
        /\ \A key \in DOMAIN prevDoc \ DOMAIN lastBlock.m : doc[key] = prevDoc[key]

\* an Info block overwrote a top-level key of an earlier Info block and left
\* another of its keys alone
C5_Witness ==
    /\ LastIsInfo
    /\ \E key \in DOMAIN lastBlock.m \cap DOMAIN prevDoc :
          prevDoc[key] # lastBlock.m[key]
    /\ \E key \in DOMAIN prevDoc \ DOMAIN lastBlock.m : key \notin {"definitions", "paths"}

-----------------------------------------------------------------------------
(* C6 *)

Malformed == {<<"{">>}

WellFormed == {<<"i">>, <<"x", "g", "s">>}

\* the files made of one malformed and one well-formed block, in either
\* order, with the well-formed body of each
MixedFiles ==
    {[text |-> Block(bad) \o Block(good) \o Code, good |-> good] :
        bad \in Malformed, good \in WellFormed}
    \cup
    {[text |-> Block(good) \o Block(bad) \o Code, good |-> good] :
        bad \in Malformed, good \in WellFormed}

\* C6 (as stated): with soft-fail enabled, compiling one file made of a
\* malformed and a well-formed block, in either order, into an empty
\* dictionary raises no decode error and leaves exactly what the well-formed
\* block contributes.
C6_SoftFailSkipsBlock ==
    \A f \in MixedFiles :
        (ignoreErrors /\ atCall.doc = EmptyDict /\ scanned = <<f.text>>
            /\ pc \in {"walk", "returned", "aborted"}) =>
                /\ raised # "YAMLError"
                /\ doc = MergeBlock(EmptyDict, YamlLoad(f.good)).doc

-----------------------------------------------------------------------------
(* C7 *)

\* C7 (as stated): compiling two files whose whole text is one block each,
\* an Info block and a Path block, gives a dictionary with the keys of the
\* Info block and paths[path][method] of the Path block.
C7_WholeTextBlocks ==
    LET info == <<"i">>
        path == <<"x", "g", "s">>
    IN  (pc = "returned" /\ atCall.doc = EmptyDict
            /\ scanned \in {<<Block(info), Block(path)>>, <<Block(path), Block(info)>>}) =>
                /\ \A key \in DOMAIN YamlLoad(info).m :
                      key \in DOMAIN doc /\ doc[key] = YamlLoad(info).m[key]
                /\ <<"/x", "get">> \in Pairs(doc)

-----------------------------------------------------------------------------
(* C8 *)

\* the next pass of the scan loop finds a block whose body fails to decode
NextBodyFails ==
    /\ pc = "scan"
    /\ HasNext(pos)
    /\ Locate(content, pos).found
    /\ YamlLoad(Locate(content, pos).body) = LoadError

\* C8: with soft-fail disabled, a block that fails to decode and a file that
\* cannot be read abort compile; in the aborted state the dumps are those of
\* before the call and nothing has been handed to the file sink; and from
\* there no file is opened and no block scanned unless compile is called
\* anew.
C8_HardErrorAborts ==
    [][ /\ (NextBodyFails /\ ~ignoreErrors) =>
               (pc' = "aborted" /\ raised' = "YAMLError")
        /\ (pc = "walk" /\ ~ignoreErrors /\ opened' > opened /\ scanned' = scanned) =>
               (pc' = "aborted" /\ raised' = "ReadError")
        /\ (pc' = "aborted" /\ ~ignoreErrors'
                /\ raised' \in {"YAMLError", "ReadError"}) =>
               /\ sink' = <<>>
               /\ dumpYaml' = atCall'.yaml
               /\ dumpJson' = atCall'.json
        /\ (pc = "aborted" /\ ~ignoreErrors) =>
               /\ opened' = opened
               /\ pc' \in {"aborted", "idle", "new", "walk"}
               /\ pc' = "walk" => (fi' = 1 /\ scanned' = <<>>)
      ]_vars

\* a decode error aborted a run that had merged blocks, with a folder left
C8_Witness ==
    /\ pc = "aborted"
    /\ ~ignoreErrors
    /\ raised = "YAMLError"
    /\ mergedDoc # atCall.doc
    /\ fi < Len(folders)

-----------------------------------------------------------------------------
(* C9 *)

-----------------------------------------------------------------------------
(* C10 *)

\* C10 (as stated): when compile returns with an empty dictionary, both
\* dumps are the empty string and write_file has not been called.
C10_EmptyNoWrite ==
    (pc = "returned" /\ doc = EmptyDict) =>
        /\ dumpYaml = EmptyString
        /\ dumpJson = EmptyString
        /\ sink = <<>>

-----------------------------------------------------------------------------
(* C11 *)

-----------------------------------------------------------------------------
(* C14 *)

\* C14 (as stated): a parser that has just been constructed has an empty
\* dictionary and an empty folder list, whatever the parsers constructed
\* before it in the process have registered or merged.
C14_NewParserEmpty ==
    pc = "new" => (doc = EmptyDict /\ folders = <<>>)

-----------------------------------------------------------------------------
(* C12 *)

\* a step of a compile call: the call itself, a step of its loops, its return
InCompile == pc \in {"walk", "scan"} \/ pc' \in {"walk", "scan"}

\* C12: compile never empties the dictionary or the folder list.  The call
\* starts the folder loop at the first folder with the dictionary as the
\* earlier run left it, every step of the run keeps the folder list and
\* every top-level key of the dictionary, the run returns only after the
\* loop has gone through every registered folder, and the only step that
\* takes a non-empty dictionary to the empty one is reset(), which also
\* empties the folder list.
C12_CompileKeeps ==
    [][ /\ (pc \in {"new", "idle", "returned", "aborted"} /\ pc' = "walk") =>
               (doc' = doc /\ fi' = 1)
        /\ InCompile =>
               /\ folders' = folders
               /\ DOMAIN doc \subseteq DOMAIN doc'
               /\ fi' \in {fi, fi + 1} \/ (fi' = 1 /\ pc' = "walk")
        /\ (pc = "walk" /\ pc' = "returned") => fi' = Len(folders') + 1
        /\ (doc # EmptyDict /\ doc' = EmptyDict) =>
               (pc' = "idle" /\ folders' = <<>> /\ pos' = 0)
      ]_vars

\* a second compile, called on the dictionary a first compile had left, has
\* walked the folders again and merged a new top-level key into it
C12_Witness ==
    /\ pc = "returned"
    /\ atCall.doc # EmptyDict
    /\ DOMAIN atCall.doc # DOMAIN doc
    /\ DOMAIN atCall.doc \subseteq DOMAIN doc
    /\ Len(folders) >= 1
    /\ fi = Len(folders) + 1

-----------------------------------------------------------------------------
(* C13 *)

\* s is t or t with elements added at its end
Extends(s, t) == Len(s) >= Len(t) /\ SubSeq(s, 1, Len(t)) = t

\* C13: reset() leaves the dictionary empty, the folder list empty, both
\* dumps empty and the cursor at 0, from whatever state it is called in
\* (a step to "idle" is reset() or add_folder on a parser with no compile
\* since construction or reset, and only the latter keeps a folder); and a
\* compile called with an empty folder list on the empty dictionary and the
\* empty dumps returns with the dictionary empty and both dumps the empty
\* string.
C13_ResetEmpties ==
    [][ /\ pc' = "idle" =>
               /\ doc' = EmptyDict
               /\ dumpYaml' = EmptyString
               /\ dumpJson' = EmptyString
               /\ pos' = 0
               /\ pc \in {"returned", "aborted"} => folders' = <<>>
               /\ pc \in {"new", "idle"} =>
                      (folders' = <<>> \/ (Extends(folders', folders)
                                            /\ Len(folders') <= Len(folders) + 1))
        /\ (pc' = "returned" /\ folders' = <<>> /\ atCall' = NoCall) =>
               /\ doc' = EmptyDict
               /\ dumpYaml' = EmptyString
               /\ dumpJson' = EmptyString
      ]_vars

\* a compile with no folder registered has returned, called right after a
\* reset() of a parser that had opened files
C13_Witness ==
    /\ pc = "returned"
    /\ folders = <<>>
    /\ atCall = NoCall
    /\ opened > 0
    /\ doc = EmptyDict

-----------------------------------------------------------------------------
(* C17 *)

NoDuplicates(s) == \A i, j \in 1..Len(s) : s[i] = s[j] => i = j

\* C17: the folder list never holds a path twice, and a step either leaves
\* it as it is, adds one path at its end, or (reset) empties it: the paths
\* stay in the order they were first added, and add_folder of a path that
\* is in the list changes nothing.
C17_FoldersOnce ==
    [][ /\ NoDuplicates(folders')
        /\ \/ folders' = <<>>
           \/ /\ Extends(folders', folders)
              /\ Len(folders') <= Len(folders) + 1
      ]_vars

\* both folders registered, the one later in the alphabet first, and a
\* compile over them has returned
C17_Witness ==
    /\ folders = <<"./project", "./api">>
    /\ pc = "returned"
    /\ opened > 0

-----------------------------------------------------------------------------
(* C18 *)

\* neither delimiter occurs in the text
NoDelimiter(text) == Find(text, SWG_BEGIN) = -1 /\ Find(text, SWG_END) = -1

\* C18: the scan of a file starts with the cursor at 0, and when the text of
\* the file holds neither delimiter (the empty text included) the first pass
\* of the loop, with its one get_swg_block call, ends the scan of the file:
\* the cursor is at -1, no exception is raised and the dictionary is the one
\* of before.
C18_NoDelimiterOnePass ==
    [][ /\ (pc = "walk" /\ pc' = "scan") => pos' = 0
        /\ (pc = "scan" /\ pos = 0 /\ NoDelimiter(content)) =>
               /\ pc' = "walk"
               /\ pos' = -1
               /\ raised' = "none"
               /\ doc' = doc
      ]_vars

\* the empty file and a file of code only have been scanned by one compile,
\* which has merged nothing
C18_Witness ==
    /\ pc = "walk"
    /\ scanned = << <<>>, Code >>
    /\ pos = -1
    /\ doc = atCall.doc

-----------------------------------------------------------------------------
(* command_line_compile *)

\* arguments on the command line
MaxArgs == 5

\* the words of the command line: the four flags and two other words
CliWords == {"-h", "-f", "-o", "-t", "./api", "yaml"}

\* the argument lists
ArgLists == UNION {[1..n -> CliWords] : n \in 0..MaxArgs}

\* one pass of the loop over args, on the argument arg
CliStep(c, arg) ==
    IF arg = "-h"
    THEN [c EXCEPT !.usage = TRUE, !.pc = "parser"]
    ELSE IF arg = "-f"
    THEN [c EXCEPT !.is_f_param = TRUE, !.is_o_param = FALSE,
                   !.is_t_param = FALSE]
    ELSE IF arg = "-o"
    THEN [c EXCEPT !.is_f_param = FALSE, !.is_o_param = TRUE,
                   !.is_t_param = FALSE]
    ELSE IF arg = "-t"
    THEN [c EXCEPT !.is_f_param = FALSE, !.is_o_param = FALSE,
                   !.is_t_param = TRUE]
    ELSE IF c.is_f_param
    THEN [c EXCEPT !.folders = Append(c.folders, arg)]
    ELSE IF c.is_t_param
    THEN [c EXCEPT !.output_type = arg]
    ELSE IF c.is_o_param
    THEN [c EXCEPT !.output = arg, !.is_o_param = FALSE]
    ELSE c

\* the folder list of a new parser after add_folder of each of fs in turn
RECURSIVE Registered(_)
Registered(fs) ==
    IF fs = <<>> THEN <<>>
    ELSE LET list == Registered(SubSeq(fs, 1, Len(fs) - 1))
             folder_path == fs[Len(fs)]
         IN  IF Cardinality({i \in 1..Len(list) : list[i] = folder_path}) = 0
             THEN Append(list, folder_path)
             ELSE list

CliInit ==
    /\ ParserInit
    /\ preview = FALSE
    /\ \E args \in ArgLists : cli = CliStart(args)

\* the loop over args takes the next argument
CliArg ==
    /\ cli.pc = "args"
    /\ cli.i < Len(cli.args)
    /\ cli' = [CliStep(cli, cli.args[cli.i + 1]) EXCEPT !.i = cli.i + 1]
    /\ UNCHANGED <<doc, folders, pos, ignoreErrors, dumpYaml, dumpJson, preview,
                   pc, raised, fi, content, outPath, format, sink, outExists,
                   lastBlock, prevDoc, merges, mergedDoc, atCall, scanned, opened,
                   cls, located>>

\* after the loop, left at its end or by the break: SwgParser(False), the
\* add_folder calls and compile(output, output_type).  The call is recorded
\* with the folder list the parser has when compile is called.
CliCompile ==
    /\ \/ cli.pc = "parser"
       \/ cli.pc = "args" /\ cli.i = Len(cli.args)
    /\ cli' = [cli EXCEPT !.pc = "done",
                          !.calls = Append(cli.calls,
                                           [folders |-> Registered(cli.folders),
                                            output_path |-> cli.output,
                                            format |-> cli.output_type])]
    /\ UNCHANGED <<doc, folders, pos, ignoreErrors, dumpYaml, dumpJson, preview,
                   pc, raised, fi, content, outPath, format, sink, outExists,
                   lastBlock, prevDoc, merges, mergedDoc, atCall, scanned, opened,
                   cls, located>>

CliNext == CliArg \/ CliCompile

SpecCli == CliInit /\ [][CliNext]_vars

-----------------------------------------------------------------------------
(* C15 *)

\* C15 (as stated): when `-h` is among the arguments, usage is printed and
\* no compile takes place: command_line_compile ends without a compile call
\* that has a folder to scan or a path to write to.
C15_HelpNoCompile ==
    (cli.pc = "done" /\ \E k \in 1..Len(cli.args) : cli.args[k] = "-h") =>
        /\ cli.usage
        /\ \A k \in 1..Len(cli.calls) :
               cli.calls[k].folders = <<>> /\ cli.calls[k].output_path = ""

-----------------------------------------------------------------------------
(* C16 *)

\* the arguments before the first `-h`
BeforeHelp(args) ==
    LET hs == {k \in 1..Len(args) : args[k] = "-h"}
    IN  IF hs = {} THEN args
        ELSE SubSeq(args, 1, (CHOOSE k \in hs : \A h \in hs : k <= h) - 1)

\* the output format as the claim reads the arguments: the word directly
\* after the last `-t` that has a word (not a flag) directly after it, json
\* when there is none
StatedType(args) ==
    LET ts == {k \in 1..(Len(args) - 1) :
                  args[k] = "-t" /\ args[k + 1] \notin {"-h", "-f", "-o", "-t"}}
    IN  IF ts = {} THEN "json"
        ELSE args[(CHOOSE k \in ts : \A t \in ts : t <= k) + 1]

\* C16 (as stated): the output format handed to compile is the word given
\* directly after the last `-t` (json when there is none); no other word of
\* the command line changes it.
C16_TypeAfterLastT ==
    cli.pc = "done" =>
        \A k \in 1..Len(cli.calls) :
            cli.calls[k].format = StatedType(BeforeHelp(cli.args))

-----------------------------------------------------------------------------
(* src/swg_python.py, the module the package grew out of.  Its SwgParser   *)
(* has the same scan and the same put_* methods; it has no ignore_errors,  *)
(* no dumps and no preview, its compile resets the parser after writing,   *)
(* and write_to_file is a method of its own.                               *)

\* write_to_file(file_path, format): the files written
WriteToFile(d, file_path, fmt) ==
    IF Cardinality(DOMAIN d) > 0
    THEN <<[path |-> file_path,
            content |-> IF fmt = "yaml" THEN YamlDump(d) ELSE JsonDumps(d)]>>
    ELSE <<>>

LegacyInit ==
    /\ Init
    /\ preview = FALSE

\* reset()
LegacyReset == Reset

\* add_folder(folder_path)
LegacyAddFolder == AddFolder

\* compile(output_path, format): the call, up to the folder loop
LegacyCompile ==
    /\ Ready
    /\ pc' = "walk"
    /\ fi' = 1
    /\ raised' = "none"
    /\ outPath' = ""
    /\ format' = "yaml"
    /\ sink' = <<>>
    /\ scanned' = <<>>
    /\ lastBlock' = NoBlock
    /\ prevDoc' = doc
    /\ mergedDoc' = doc
    /\ atCall' = [doc |-> doc, yaml |-> dumpYaml, json |-> dumpJson]
    /\ UNCHANGED <<doc, folders, pos, ignoreErrors, dumpYaml, dumpJson, preview,
                   content, outExists, merges, opened, cls, cli, located>>

\* compile_folder: the walk comes upon the next .py file
LegacyNextFile ==
    /\ fi >= 1
    /\ NextFile

\* compile_swagger_json(file_path) called by the user of the class
LegacyCompileFile ==
    /\ Ready
    /\ opened < MaxFiles
    /\ opened' = opened + 1
    /\ pos' = 0
    /\ fi' = 0
    /\ sink' = <<>>
    /\ lastBlock' = NoBlock
    /\ prevDoc' = doc
    /\ mergedDoc' = doc
    /\ \E readable \in BOOLEAN :
          IF readable
          THEN /\ \E text \in Files :
                    /\ content' = text
                    /\ scanned' = <<text>>
               /\ pc' = "scan"
               /\ raised' = "none"
          ELSE /\ pc' = "aborted"
               /\ raised' = "ReadError"
               /\ scanned' = <<>>
               /\ UNCHANGED content
    /\ UNCHANGED <<doc, folders, ignoreErrors, dumpYaml, dumpJson, preview,
                   outPath, format, outExists, merges, atCall, cls, cli, located>>

\* compile_swagger_json: one pass of the while loop
LegacyScanBlock == ScanBlock

\* the compile_swagger_json call of the user returns
LegacyFileReturn ==
    /\ pc = "walk"
    /\ fi = 0
    /\ pc' = "parsed"
    /\ UNCHANGED <<doc, folders, pos, ignoreErrors, dumpYaml, dumpJson, preview,
                   raised, fi, content, outPath, format, sink, outExists,
                   lastBlock, prevDoc, merges, mergedDoc, atCall, scanned, opened,
                   cls, cli, located>>

\* compile_folder: the walk of the folder is over
LegacyEndFolder ==
    /\ fi >= 1
    /\ EndFolder

\* compile that writes and resets whenever a folder is registered
LegacyFinishAlways ==
    /\ pc = "walk"
    /\ fi >= 1
    /\ fi > Len(folders)
    /\ \E output_path \in {"", OutputFile}, fmt \in {"yaml", "json"} :
          /\ (output_path = "" => fmt = "yaml")
          /\ outPath' = output_path
          /\ format' = fmt
          /\ IF Len(folders) > 0
             THEN /\ sink' = WriteToFile(doc, output_path, fmt)
                  /\ pos' = 0
                  /\ doc' = EmptyDict
                  /\ folders' = <<>>
             ELSE UNCHANGED <<sink, pos, doc, folders>>
    /\ pc' = "returned"
    /\ UNCHANGED <<ignoreErrors, dumpYaml, dumpJson, preview, raised, fi,
                   content, outExists, lastBlock, prevDoc, merges, mergedDoc,
                   atCall, scanned, opened, cls, cli, located>>

\* compile: after the folder loop, with the output_path and format of the
\* call: write_to_file and reset(), or nothing
LegacyFinish ==
    /\ pc = "walk"
    /\ fi >= 1
    /\ fi > Len(folders)
    /\ \E output_path \in {"", OutputFile}, fmt \in {"yaml", "json"} :
          /\ (output_path = "" => fmt = "yaml")
          /\ outPath' = output_path
          /\ format' = fmt
          /\ IF Len(folders) > 0 /\ Len(output_path) > 0
             THEN /\ sink' = WriteToFile(doc, output_path, fmt)
                  /\ pos' = 0
                  /\ doc' = EmptyDict
                  /\ folders' = <<>>
             ELSE UNCHANGED <<sink, pos, doc, folders>>
    /\ pc' = "returned"
    /\ UNCHANGED <<ignoreErrors, dumpYaml, dumpJson, preview, raised, fi,
                   content, outExists, lastBlock, prevDoc, merges, mergedDoc,
                   atCall, scanned, opened, cls, cli, located>>

\* write_to_file(file_path, format) called by the user of the class
LegacyWriteToFile ==
    /\ Ready
    /\ \E fmt \in {"yaml", "json"} :
          /\ outPath' = OutputFile
          /\ format' = fmt
          /\ sink' = WriteToFile(doc, OutputFile, fmt)
    /\ pc' = "written"
    /\ UNCHANGED <<doc, folders, pos, ignoreErrors, dumpYaml, dumpJson, preview,
                   raised, fi, content, outExists, lastBlock, prevDoc, merges,
                   mergedDoc, atCall, scanned, opened, cls, cli, located>>

LegacyNext ==
    \/ LegacyReset
    \/ LegacyAddFolder
    \/ LegacyCompile
    \/ LegacyNextFile
    \/ LegacyCompileFile
    \/ LegacyScanBlock
    \/ LegacyFileReturn
    \/ LegacyEndFolder
    \/ LegacyFinish
    \/ LegacyWriteToFile

SpecLegacy == LegacyInit /\ [][LegacyNext]_vars

-----------------------------------------------------------------------------
(* C19 *)

\* C19 (as stated): in src/swg_python.py, when compile returns from a call
\* with a non-empty output_path, the compiled dictionary has been written to
\* that path (in the format of the call) and the parser has been reset: the
\* dictionary and the folder list are empty, whatever they were before.
C19_WritesAndResets ==
    [][ (pc = "walk" /\ pc' = "returned" /\ outPath' # "") =>
            /\ doc # EmptyDict => sink' = WriteToFile(doc, outPath', format')
            /\ doc' = EmptyDict
            /\ folders' = <<>>
      ]_vars

-----------------------------------------------------------------------------
(* C20 *)

\* C20: in src/swg_python.py, when compile returns from a call without an
\* output path nothing has been written, the folder list and the dictionary
\* are those the folder loop left (the dictionary with every block the run
\* merged), and a write_to_file call leaves both alone and writes the dump
\* of that dictionary, in the format it is given, unless it is empty.
C20_NoPathKeeps ==
    [][ /\ (pc = "walk" /\ pc' = "returned" /\ outPath' = "") =>
               /\ sink' = <<>>
               /\ folders' = folders
               /\ doc' = doc
               /\ doc' = mergedDoc'
        /\ (pc \in {"walk", "scan"} /\ fi >= 1) => folders' = folders \/ pc' = "returned"
        /\ (pc = "returned" /\ pc' = "written") =>
               /\ doc' = doc
               /\ folders' = folders
               /\ doc # EmptyDict =>
                      sink' = <<[path |-> outPath',
                                 content |-> IF format' = "yaml" THEN YamlDump(doc)
                                             ELSE JsonDumps(doc)]>>
      ]_vars

\* write_to_file has written the dictionary that a compile without output
\* path, over two folders, had merged blocks into
C20_Witness ==
    /\ pc = "written"
    /\ Len(folders) = 2
    /\ fi = 3
    /\ scanned # <<>>
    /\ doc # atCall.doc
    /\ sink # <<>>
    /\ format = "json"

-----------------------------------------------------------------------------
(* The search for the delimiters on its own: get_swg_block is called on a  *)
(* text from a cursor, again and again while has_next() holds and a block  *)
(* is found, as the loop of compile_swagger_json does when every block     *)
(* decodes to a mapping.                                                   *)

\* pieces a text is put together from
MaxPieces == 3

Pieces == {SWG_BEGIN, SWG_END, <<"i">>, Block(<<"i">>)}

RECURSIVE Join(_)
Join(ps) == IF ps = <<>> THEN <<>> ELSE Head(ps) \o Join(Tail(ps))

LocateTexts == {Join(ps) : ps \in UNION {[1..n -> Pieces] : n \in 0..MaxPieces}}

LocateInit ==
    /\ doc = EmptyDict
    /\ folders = <<"./api">>
    /\ ignoreErrors = FALSE
    /\ dumpYaml = EmptyString
    /\ dumpJson = EmptyString
    /\ preview = FALSE
    /\ pc = "scan"
    /\ raised = "none"
    /\ fi = 1
    /\ outPath = ""
    /\ format = "yaml"
    /\ sink = <<>>
    /\ outExists = FALSE
    /\ lastBlock = NoBlock
    /\ prevDoc = EmptyDict
    /\ merges = 0
    /\ mergedDoc = EmptyDict
    /\ atCall = NoCall
    /\ opened = 1
    /\ cls = ClassShared
    /\ cli = CliStart(<<>>)
    /\ located = NoLocate
    /\ \E text \in LocateTexts :
          /\ content = text
          /\ scanned = <<text>>
          /\ pos \in 0..Len(text)

\* has_next() holds: get_swg_block searches the delimiters from the cursor
LocateCall ==
    /\ pc = "scan"
    /\ HasNext(pos)
    /\ LET res == Locate(content, pos)
       IN  /\ pos' = res.pos
           /\ located' = [from |-> pos, found |-> res.found, body |-> res.body,
                          calls |-> located.calls + 1]
           /\ pc' = IF res.found THEN "scan" ELSE "walk"
    /\ UNCHANGED <<doc, folders, ignoreErrors, dumpYaml, dumpJson, preview,
                   raised, fi, content, outPath, format, sink, outExists,
                   lastBlock, prevDoc, merges, mergedDoc, atCall, scanned, opened,
                   cls, cli>>

LocateNext == LocateCall

SpecLocate == LocateInit /\ [][LocateNext]_vars

\* the loop goes on while it can
SpecLocateFair == SpecLocate /\ WF_vars(LocateCall)

-----------------------------------------------------------------------------
(* C21 *)

\* the delimiter sub stands in text at index k (counted from 0)
Occurs(text, sub, k) ==
    /\ k + Len(sub) <= Len(text)
    /\ SubSeq(text, k + 1, k + Len(sub)) = sub

\* index of the first occurrence of sub in text at or after c, -1 if none
FirstFrom(text, sub, c) ==
    LET ks == {k \in c..Len(text) : Occurs(text, sub, k)}
    IN  IF ks = {} THEN -1 ELSE CHOOSE k \in ks : \A j \in ks : k <= j

\* C21: a search from cursor c looks for the first start delimiter and the
\* first end delimiter at or after c.  It returns no block, and the cursor
\* becomes -1, exactly when the end delimiter is absent, or the start
\* delimiter is absent, or the index just after the end delimiter is at or
\* past the length of the text; otherwise the cursor becomes the index just
\* after the end delimiter, wherever the start delimiter stands, and the
\* block is the text from the end of the start delimiter to the beginning
\* of the end delimiter, empty when the end delimiter comes first.
C21_LocateStep ==
    located.calls > 0 =>
        LET c == located.from
            s == FirstFrom(content, SWG_BEGIN, c)
            e == FirstFrom(content, SWG_END, c)
            none == e = -1 \/ s = -1 \/ e + Len(SWG_END) >= Len(content)
        IN  /\ none <=> ~located.found
            /\ none => pos = -1
            /\ ~none =>
                  /\ pos = e + Len(SWG_END)
                  /\ located.body = SubSeq(content, s + Len(SWG_BEGIN) + 1, e)
                  /\ e < s => located.body = <<>>

\* a search from inside the text found an end delimiter before the start
\* delimiter and returned the empty block
C21_Witness ==
    /\ located.calls > 0
    /\ located.found
    /\ located.from > 0
    /\ FirstFrom(content, SWG_END, located.from)
          < FirstFrom(content, SWG_BEGIN, located.from)
    /\ located.body = <<>>
    /\ pos = FirstFrom(content, SWG_END, located.from) + Len(SWG_END)

-----------------------------------------------------------------------------
(* C27 *)

\* C27: the searches of one text come to an end.  A search that finds a
\* block leaves the cursor greater than it was and less than the length of
\* the text, any other search leaves it at -1, no search is made once it is
\* -1, and the cursor does get to -1.
C27_ScanTerminates ==
    /\ [][ /\ located'.calls = located.calls + 1 =>
                 IF located'.found
                 THEN pos' > pos /\ pos' < Len(content)
                 ELSE pos' = -1
           /\ pos = -1 => located'.calls = located.calls
         ]_vars
    /\ <>(pos = -1)

\* two blocks were found, one after the other, before the search that found
\* none
C27_Witness ==
    /\ located.calls = 3
    /\ pos = -1
    /\ ~located.found

-----------------------------------------------------------------------------
(* C23 *)

\* the search from the cursor finds a block with nothing but white space
\* between the delimiters
NextBodyEmpty ==
    /\ pc = "scan"
    /\ HasNext(pos)
    /\ Locate(content, pos).found
    /\ Range(Locate(content, pos).body) \subseteq {" "}

\* C23 (as stated): a block with an empty body merges nothing, raises
\* nothing, and the scan of the file goes on behind it.
C23_EmptyBodyGoesOn ==
    [][ NextBodyEmpty =>
            /\ doc' = doc
            /\ raised' = "none"
            /\ pc' = "scan"
            /\ pos' = Locate(content, pos).pos
      ]_vars

-----------------------------------------------------------------------------
(* C24 *)

\* the block of the last step is a Definition block and of another kind too
LastIsSeveralKinds ==
    /\ MergedMap
    /\ IsSwgDefinition(lastBlock.m)
    /\ IsSwgPath(lastBlock.m) \/ IsSwgInfo(lastBlock.m)

\* C24 (as stated): a block with a non-null `definition` key and a non-null
\* `method` or `info` key is merged as a Definition block only: no
\* exception, definitions[name] is the block without its `definition` key,
\* the other definitions are as before, and every other top-level key,
\* `paths` among them, is as before, none added.
C24_DefinitionOnly ==
    LastIsSeveralKinds =>
        /\ raised = "none"
        /\ LastName \in DefNames(doc)
        /\ DefBody(doc, LastName) = Map(Without(lastBlock.m, {"definition"}))
        /\ DefNames(doc) = DefNames(prevDoc) \cup {LastName}
        /\ \A name \in DefNames(prevDoc) \ {LastName} :
              DefBody(doc, name) = DefBody(prevDoc, name)
        /\ DOMAIN doc = DOMAIN prevDoc \cup {"definitions"}
        /\ \A key \in DOMAIN prevDoc \ {"definitions"} : doc[key] = prevDoc[key]

-----------------------------------------------------------------------------
(* C25 *)

\* the block of the last step is of no kind
LastIsNoKind ==
    /\ MergedMap
    /\ ~IsSwgDefinition(lastBlock.m)
    /\ ~IsSwgPath(lastBlock.m)
    /\ ~IsSwgInfo(lastBlock.m)

\* C25: merging a block in which none of `definition`, `method` and `info`
\* has a non-null value raises nothing and leaves the dictionary as it was;
\* and on any block, the put_* of a kind the block is not of returns the
\* dictionary it was given.
C25_NoKindNoMerge ==
    /\ LastIsNoKind => (doc = prevDoc /\ raised = "none")
    /\ MergedMap =>
          /\ ~IsSwgDefinition(lastBlock.m) =>
                PutDefinitions(prevDoc, lastBlock.m) = prevDoc
          /\ ~IsSwgInfo(lastBlock.m) =>
                PutSwgInfo(prevDoc, lastBlock.m) = prevDoc
          /\ ~IsSwgPath(lastBlock.m) =>
                PutSwgPath(prevDoc, lastBlock.m) = prevDoc

\* a block with null `definition` and `info` keys and another key of its own
\* was merged into a dictionary that held something
C25_Witness ==
    /\ LastIsNoKind
    /\ {"definition", "info", "description"} \subseteq DOMAIN lastBlock.m
    /\ prevDoc # EmptyDict
    /\ "description" \notin DOMAIN doc

-----------------------------------------------------------------------------
(* Two compile runs over the same files without reset(): the blocks of the *)
(* files are merged in file order by the first run and, the files being    *)
(* unchanged, the same blocks in the same order by the second.  A run ends *)
(* at the block whose merge raises.                                        *)

\* the block bodies of the files
TwiceBodies == {
    <<"x","g","s">>, <<"x","g","t","c">>, <<"x","o","s">>,
    <<"d","s">>, <<"d","c">>, <<"e","s">>,
    <<"i">>, <<"j","c">>, <<"i","P">>, <<"i","F">>,
    <<"d","x","g","s">>, <<"d","i","c">>, <<"d","i","F">>, <<"d","g">>,
    <<"w">> }

TwiceInit == MergeInit

\* first run: the loop body of compile_swagger_json on the next block
FirstRun ==
    /\ fi = 0
    /\ raised = "none"
    /\ merges < MaxMerges
    /\ \E body \in TwiceBodies :
          LET loaded == YamlLoad(body)
              res    == MergeBlock(doc, loaded)
          IN  /\ doc' = res.doc
              /\ raised' = res.exc
              /\ lastBlock' = loaded
              /\ prevDoc' = doc
              /\ mergedDoc' = res.doc
              /\ scanned' = Append(scanned, body)
              /\ merges' = merges + 1
    /\ UNCHANGED <<folders, pos, ignoreErrors, dumpYaml, dumpJson, preview, pc,
                   fi, content, outPath, format, sink, outExists, atCall,
                   opened, cls, cli, located>>

\* the first run is over (returned or aborted) and compile is called again
SecondCall ==
    /\ fi = 0
    /\ fi' = 1
    /\ raised' = "none"
    /\ mergedDoc' = doc
    /\ atCall' = [doc |-> doc, yaml |-> dumpYaml, json |-> dumpJson]
    /\ UNCHANGED <<doc, folders, pos, ignoreErrors, dumpYaml, dumpJson, preview,
                   pc, content, outPath, format, sink, outExists, lastBlock,
                   prevDoc, merges, scanned, opened, cls, cli, located>>

\* second run: the loop body on the next block of the same files
SecondRun ==
    /\ fi >= 1
    /\ fi <= Len(scanned)
    /\ raised = "none"
    /\ LET loaded == YamlLoad(scanned[fi])
           res    == MergeBlock(doc, loaded)
       IN  /\ doc' = res.doc
           /\ raised' = res.exc
           /\ lastBlock' = loaded
           /\ prevDoc' = doc
    /\ fi' = fi + 1
    /\ UNCHANGED <<folders, pos, ignoreErrors, dumpYaml, dumpJson, preview, pc,
                   content, outPath, format, sink, outExists, merges, mergedDoc,
                   atCall, scanned, opened, cls, cli, located>>

TwiceNext == FirstRun \/ SecondCall \/ SecondRun

SpecTwice == TwiceInit /\ [][TwiceNext]_vars

-----------------------------------------------------------------------------
(* C26 *)

\* the second run is over
SecondOver == fi >= 1 /\ (fi > Len(scanned) \/ raised # "none")

\* C26: when the second of two runs over the same blocks is over, the
\* dictionary is the one the first run left.
C26_SecondRunSame ==
    SecondOver => doc = mergedDoc

\* two runs over three blocks, none raising, that left definitions and
\* paths, and in which a block of the second run changed the dictionary
C26_Witness ==
    /\ SecondOver
    /\ Len(scanned) = 3
    /\ raised = "none"
    /\ DefNames(doc) # {}
    /\ Pairs(doc) # {}
    /\ prevDoc # doc

\* ---------------------------------------------------------------------------
\* Soft-fail and the merge step (parser.py:178-184, 214-225)
\* ---------------------------------------------------------------------------

\* C28: with soft-fail enabled a compile run over readable files ends without
\* raising, whatever the block bodies decode to: a run that was started with
\* ignore_errors set is only ever aborted by a file that cannot be read.
C28_SoftFailNeverRaises ==
    (ignoreErrors /\ pc = "aborted") => raised = "ReadError"

\* ---------------------------------------------------------------------------
\* Files made of whole blocks (parser.py:131-154, 156-186)
\* ---------------------------------------------------------------------------

\* the text is n >= 0 blocks (start delimiter, a body without delimiters that
\* yaml.load turns into a value, end delimiter) followed by at least one
\* character that belongs to no block
RECURSIVE WellFormedBlocks(_)
WellFormedBlocks(text) ==
    LET begin == Find(text, SWG_BEGIN)
        end   == Find(text, SWG_END)
    IN  IF begin = -1 /\ end = -1
        THEN Len(text) >= 1
        ELSE /\ begin = 0
             /\ end >= Len(SWG_BEGIN)
             /\ LET body == Slice(text, Len(SWG_BEGIN), end)
                IN  /\ Find(body, SWG_BEGIN) = -1
                    /\ YamlLoad(body) \notin {LoadNone, LoadError}
             /\ WellFormedBlocks(Slice(text, end + Len(SWG_END), Len(text)))

\* C22: in a file made of n >= 0 whole blocks with decodable non-empty bodies
\* and a trailing character, every scan step that finds a block merges it and
\* goes on behind it without raising, the step that finds none ends the file,
\* and every file is entered with the cursor at 0.
C22_ScanMergesAll ==
    [][ /\ (pc = "walk" /\ pc' = "scan") => pos' = 0
        /\ (pc = "scan" /\ HasNext(pos) /\ WellFormedBlocks(content)) =>
               LET loc == Locate(content, pos)
               IN  IF loc.found
                   THEN /\ pc' = "scan"
                        /\ raised' = "none"
                        /\ lastBlock' = YamlLoad(loc.body)
                        /\ doc' = MergeBlock(doc, YamlLoad(loc.body)).doc
                        /\ pos' = loc.pos
                   ELSE pc' = "walk" ]_vars

====
